---------------------------- MODULE Spec2Model ----------------------------
(***************************************************************************)
(* A model of the SOLID example programs.                                  *)
(*                                                                         *)
(* Every source file is a standalone program: classes, a heap of objects   *)
(* built by constructors, methods that write lines to the console, and a   *)
(* top-level script.  The model keeps the heap, the classes declared so    *)
(* far, the wall clock read by Logger.log, and a history of the calls made *)
(* with what each one printed, returned or threw.                          *)
(*                                                                         *)
(* Strings are TLA+ strings, template literals are concatenations, and a   *)
(* number is rendered by NumberToString digit by digit.  Numbers are       *)
(* integers: the amounts used (multiples of 100) are those for which the   *)
(* IEEE-754 products amount * 0.05, 0.1, 0.15, 0.2 are the exact integers. *)
(***************************************************************************)
EXTENDS Integers, Sequences, FiniteSets, TLC

VARIABLES
  program,   \* which of the standalone programs runs
  classes,   \* the classes whose declaration has been evaluated
  heap,      \* the objects constructed so far: [cls, fields]
  clock,     \* the wall clock, in ms since the epoch (new Date())
  calls,     \* history of the caller's calls, oldest first: all of them
             \* when the caller is the example script, else the last two
  env,       \* the script's top-level consts: name -> object
  pc         \* the script's next statement (0: the caller is not the script)

vars == <<program, classes, heap, clock, calls, env, pc>>

(***************************************************************************)
(* Bounds of the model.                                                    *)
(***************************************************************************)
MaxObjs == 2      \* objects on the heap
MaxObjsDIP == 4   \* the same for the dependency-inversion program, whose
                  \* modules hold other objects
MaxClock == 1     \* ms the clock may advance

(***************************************************************************)
(* Inputs.                                                                 *)
(***************************************************************************)
Amounts == {100, 1000}
DataStrings == {"User data", "Post data"}
CustomerTypes == {"regular", "silver", "gold", "premium"}
UserNames == {"Alice"}
UserEmails == {"alice@example.com"}
Passwords == {"AlicePassword", "hunter2"}

(***************************************************************************)
(* JavaScript values.                                                      *)
(***************************************************************************)
Num(n) == [num |-> n]
Str(s) == [str |-> s]
Undefined == [undefined |-> TRUE]
Ref(o) == [ref |-> o]

IsNum(v) == DOMAIN v = {"num"}
IsStr(v) == DOMAIN v = {"str"}

(***************************************************************************)
(* String(n) for an integer n, as a template literal renders it.           *)
(***************************************************************************)
Digit(d) ==
  CASE d = 0 -> "0" [] d = 1 -> "1" [] d = 2 -> "2" [] d = 3 -> "3"
    [] d = 4 -> "4" [] d = 5 -> "5" [] d = 6 -> "6" [] d = 7 -> "7"
    [] d = 8 -> "8" [] d = 9 -> "9"

RECURSIVE NatToString(_)
NatToString(n) ==
  IF n < 10 THEN Digit(n) ELSE NatToString(n \div 10) \o Digit(n % 10)

NumberToString(n) ==
  IF n < 0 THEN "-" \o NatToString(-n) ELSE NatToString(n)

\* s contains sub as a substring
Contains(s, sub) ==
  \E i \in 1..(Len(s) - Len(sub) + 1) : SubSeq(s, i, i + Len(sub) - 1) = sub

(***************************************************************************)
(* The outcome of a call: the heap after it, the lines written to the      *)
(* console, the value returned, and the message of the Error thrown        *)
(* ("none": the call returned normally).                                   *)
(***************************************************************************)
NoError == "none"
Return(h, out, ret) == [heap |-> h, out |-> out, ret |-> ret, err |-> NoError]
Throw(h, message) == [heap |-> h, out |-> <<>>, ret |-> Undefined, err |-> message]

(***************************************************************************)
(* Liskov substitution: the Payment classes.                               *)
(***************************************************************************)
CreditCardPayment_processPayment(h, self, amount) ==
  Return(h, <<"Processed credit card payment of $" \o NumberToString(amount.num)>>,
         Undefined)

\* A copy of the credit card class with the message left unedited.
PayPalPayment_processPayment_copied(h, self, amount) ==
  Return(h, <<"Processed credit card payment of $" \o NumberToString(amount.num)>>,
         Undefined)

PayPalPayment_processPayment(h, self, amount) ==
  Return(h, <<"Processed PayPal payment of $" \o NumberToString(amount.num)>>,
         Undefined)

BankTransferPayment_processPayment(h, self, amount) ==
  Return(h, <<"Processed bank transfer payment of $" \o NumberToString(amount.num)>>,
         Undefined)

CryptoPayment_processPayment(h, self, amount) ==
  Return(h, <<"Processed cryptocurrency payment of $" \o NumberToString(amount.num)>>,
         Undefined)

(***************************************************************************)
(* Dynamic dispatch: the method named op of the object's class.  Methods   *)
(* that call methods of other objects go through it, as the runtime does.  *)
(***************************************************************************)
RECURSIVE Invoke(_, _, _, _)

(***************************************************************************)
(* Open/closed, after: the Discount classes.  this.amount * 0.05 etc.      *)
(***************************************************************************)
\* calculateDiscount() that also takes the discount off this.amount.
RegularCustomer_calculateDiscount_applied(h, self, arg) ==
  LET discount == (h[self].fields.amount * 5) \div 100 IN
  Return([h EXCEPT ![self].fields.amount = @ - discount], <<>>, Num(discount))

RegularCustomer_calculateDiscount(h, self, arg) ==
  Return(h, <<>>, Num((h[self].fields.amount * 5) \div 100))

SilverCustomer_calculateDiscount(h, self, arg) ==
  Return(h, <<>>, Num((h[self].fields.amount * 1) \div 10))

\* Gold with silver's rate.
GoldCustomer_calculateDiscount_silverRate(h, self, arg) ==
  Return(h, <<>>, Num((h[self].fields.amount * 1) \div 10))

GoldCustomer_calculateDiscount(h, self, arg) ==
  Return(h, <<>>, Num((h[self].fields.amount * 15) \div 100))

PremiumCustomer_calculateDiscount(h, self, arg) ==
  Return(h, <<>>, Num((h[self].fields.amount * 2) \div 10))

(***************************************************************************)
(* Open/closed, before: Discount branches on the customerType tag.         *)
(***************************************************************************)
\* The tag branching with a default of no discount instead of the throw.
Discount_calculateDiscount_default(h, self, arg) ==
  LET this == h[self].fields IN
  IF this.customerType = "regular" THEN
    Return(h, <<>>, Num((this.amount * 5) \div 100))
  ELSE IF this.customerType = "silver" THEN
    Return(h, <<>>, Num((this.amount * 1) \div 10))
  ELSE IF this.customerType = "gold" THEN
    Return(h, <<>>, Num((this.amount * 15) \div 100))
  ELSE
    Return(h, <<>>, Num(0))

Discount_calculateDiscount(h, self, arg) ==
  LET this == h[self].fields IN
  IF this.customerType = "regular" THEN
    Return(h, <<>>, Num((this.amount * 5) \div 100))
  ELSE IF this.customerType = "silver" THEN
    Return(h, <<>>, Num((this.amount * 1) \div 10))
  ELSE IF this.customerType = "gold" THEN
    Return(h, <<>>, Num((this.amount * 15) \div 100))
  ELSE
    Throw(h, "Customer type not supported")

(***************************************************************************)
(* Interface segregation, before: BasicPrinter implements the fat Printer. *)
(***************************************************************************)
BasicPrinter_print(h, self, arg) ==
  Return(h, <<"Printing document...">>, Undefined)

\* scan() that logs the refusal instead of throwing it.
BasicPrinter_scan_logged(h, self, arg) ==
  Return(h, <<"Scan not supported by BasicPrinter.">>, Undefined)

BasicPrinter_scan(h, self, arg) ==
  Throw(h, "Scan not supported by BasicPrinter.")

BasicPrinter_fax(h, self, arg) ==
  Throw(h, "Fax not supported by BasicPrinter.")

(***************************************************************************)
(* Interface segregation, after: the narrow interfaces' classes.           *)
(***************************************************************************)
BasicPrinterISP_print(h, self, arg) ==
  Return(h, <<"Printing document...">>, Undefined)

AdvancedPrinter_print(h, self, arg) ==
  Return(h, <<"Printing document...">>, Undefined)

\* scan() left as the fat interface's stub.
AdvancedPrinter_scan_stub(h, self, arg) ==
  Throw(h, "Scan not supported by AdvancedPrinter.")

AdvancedPrinter_scan(h, self, arg) ==
  Return(h, <<"Scanning document...">>, Undefined)

AdvancedPrinter_fax(h, self, arg) ==
  Return(h, <<"Faxing document...">>, Undefined)

Photocopier_print(h, self, arg) ==
  Return(h, <<"Printing document...">>, Undefined)

Photocopier_photocopy(h, self, arg) ==
  Return(h, <<"Photocopying document...">>, Undefined)

(***************************************************************************)
(* Dependency inversion, before: HighLevelModule owns its two databases.   *)
(***************************************************************************)
MySqlDatabase_save(h, self, data) ==
  Return(h, <<data.str \o " is being saved to MySQL">>, Undefined)

MongoDbDatabase_save(h, self, data) ==
  Return(h, <<data.str \o " is being saved to MongoDB">>, Undefined)

\* saveToMySQL pasted from saveToMongoDB with the field left unedited.
HighLevelModule_saveToMySQL_pasted(h, self, data) ==
  Invoke(h, h[self].fields.mongoDatabase.ref, "save", data)

HighLevelModule_saveToMySQL(h, self, data) ==
  Invoke(h, h[self].fields.mysqlDatabase.ref, "save", data)

HighLevelModule_saveToMongoDB(h, self, data) ==
  Invoke(h, h[self].fields.mongoDatabase.ref, "save", data)

(***************************************************************************)
(* Dependency inversion, after: the database is injected.                  *)
(***************************************************************************)
MySqlDatabaseDIP_save(h, self, data) ==
  Return(h, <<data.str \o " is being saved to MySQL">>, Undefined)

\* A copy of the MySQL class with the message left unedited.
MongoDbDatabaseDIP_save_copied(h, self, data) ==
  Return(h, <<data.str \o " is being saved to MySQL">>, Undefined)

MongoDbDatabaseDIP_save(h, self, data) ==
  Return(h, <<data.str \o " is being saved to MongoDB">>, Undefined)

HighLevelModuleDIP_saveData(h, self, data) ==
  Invoke(h, h[self].fields.database.ref, "save", data)

(***************************************************************************)
(* JSON.stringify of a string and of the object literal getUser returns.   *)
(***************************************************************************)
RECURSIVE JSONEscape(_)
JSONEscape(s) ==
  IF Len(s) = 0 THEN ""
  ELSE LET c == SubSeq(s, 1, 1)
           rest == JSONEscape(SubSeq(s, 2, Len(s)))
       IN IF c = "\"" THEN "\\\"" \o rest
          ELSE IF c = "\\" THEN "\\\\" \o rest
          ELSE c \o rest

JSONQuote(s) == "\"" \o JSONEscape(s) \o "\""

JSONStringify(v) ==
  "{\"name\":" \o JSONQuote(v.object.name)
    \o ",\"email\":" \o JSONQuote(v.object.email) \o "}"

(***************************************************************************)
(* new Date().toISOString() for an instant t of 1970-01-01 (t in ms).      *)
(***************************************************************************)
Pad(n, width) ==
  LET s == NatToString(n) IN
  IF Len(s) >= width THEN s
  ELSE IF width - Len(s) = 1 THEN "0" \o s
  ELSE "00" \o s

toISOString(t) ==
  "1970-01-01T" \o Pad(t \div 3600000, 2)
    \o ":" \o Pad((t \div 60000) % 60, 2)
    \o ":" \o Pad((t \div 1000) % 60, 2)
    \o "." \o Pad(t % 1000, 3) \o "Z"

(***************************************************************************)
(* Single responsibility, after: User and Logger.                          *)
(***************************************************************************)
\* getUser() returning every constructor field, the password included.
User_getUser_leaking(h, self, arg) ==
  Return(h, <<>>,
         [object |-> [name |-> h[self].fields.name, email |-> h[self].fields.email,
                      password |-> h[self].fields.password]])

User_getUser(h, self, arg) ==
  Return(h, <<>>,
         [object |-> [name |-> h[self].fields.name, email |-> h[self].fields.email]])

\* save() as it was before the responsibilities were split: it logs too.
User_save_logging(h, self, arg) ==
  LET r == Invoke(h, self, "getUser", Undefined) IN
  Return(r.heap,
         << "User " \o JSONStringify(r.ret) \o " saved to database",
            "LOG: User " \o JSONStringify(r.ret) \o " saved to database at "
              \o toISOString(clock) >>,
         Undefined)

User_save(h, self, arg) ==
  LET r == Invoke(h, self, "getUser", Undefined) IN
  Return(r.heap, <<"User " \o JSONStringify(r.ret) \o " saved to database">>,
         Undefined)

Logger_log(h, self, message) ==
  Return(h, <<"LOG: " \o message.str \o " at " \o toISOString(clock)>>,
         Undefined)

(***************************************************************************)
(* The method table.  A name the class does not define is not a function.  *)
(***************************************************************************)
Invoke(h, self, op, arg) ==
  LET cls == h[self].cls IN
  CASE cls = "CreditCardPayment" /\ op = "processPayment" ->
         CreditCardPayment_processPayment(h, self, arg)
    [] cls = "PayPalPayment" /\ op = "processPayment" ->
         PayPalPayment_processPayment(h, self, arg)
    [] cls = "BankTransferPayment" /\ op = "processPayment" ->
         BankTransferPayment_processPayment(h, self, arg)
    [] cls = "CryptoPayment" /\ op = "processPayment" ->
         CryptoPayment_processPayment(h, self, arg)
    [] cls = "RegularCustomer" /\ op = "calculateDiscount" ->
         RegularCustomer_calculateDiscount(h, self, arg)
    [] cls = "SilverCustomer" /\ op = "calculateDiscount" ->
         SilverCustomer_calculateDiscount(h, self, arg)
    [] cls = "GoldCustomer" /\ op = "calculateDiscount" ->
         GoldCustomer_calculateDiscount(h, self, arg)
    [] cls = "PremiumCustomer" /\ op = "calculateDiscount" ->
         PremiumCustomer_calculateDiscount(h, self, arg)
    [] cls = "Discount" /\ op = "calculateDiscount" ->
         Discount_calculateDiscount(h, self, arg)
    [] cls = "BasicPrinter" /\ op = "print" -> BasicPrinter_print(h, self, arg)
    [] cls = "BasicPrinter" /\ op = "scan" -> BasicPrinter_scan(h, self, arg)
    [] cls = "BasicPrinter" /\ op = "fax" -> BasicPrinter_fax(h, self, arg)
    [] cls = "BasicPrinterISP" /\ op = "print" -> BasicPrinterISP_print(h, self, arg)
    [] cls = "AdvancedPrinter" /\ op = "print" -> AdvancedPrinter_print(h, self, arg)
    [] cls = "AdvancedPrinter" /\ op = "scan" -> AdvancedPrinter_scan(h, self, arg)
    [] cls = "AdvancedPrinter" /\ op = "fax" -> AdvancedPrinter_fax(h, self, arg)
    [] cls = "Photocopier" /\ op = "print" -> Photocopier_print(h, self, arg)
    [] cls = "Photocopier" /\ op = "photocopy" -> Photocopier_photocopy(h, self, arg)
    [] cls = "MySqlDatabase" /\ op = "save" -> MySqlDatabase_save(h, self, arg)
    [] cls = "MongoDbDatabase" /\ op = "save" -> MongoDbDatabase_save(h, self, arg)
    [] cls = "HighLevelModule" /\ op = "saveToMySQL" ->
         HighLevelModule_saveToMySQL(h, self, arg)
    [] cls = "HighLevelModule" /\ op = "saveToMongoDB" ->
         HighLevelModule_saveToMongoDB(h, self, arg)
    [] cls = "MySqlDatabaseDIP" /\ op = "save" -> MySqlDatabaseDIP_save(h, self, arg)
    [] cls = "MongoDbDatabaseDIP" /\ op = "save" -> MongoDbDatabaseDIP_save(h, self, arg)
    [] cls = "HighLevelModuleDIP" /\ op = "saveData" ->
         HighLevelModuleDIP_saveData(h, self, arg)
    [] cls = "User" /\ op = "getUser" -> User_getUser(h, self, arg)
    [] cls = "User" /\ op = "save" -> User_save(h, self, arg)
    [] cls = "Logger" /\ op = "log" -> Logger_log(h, self, arg)
    [] OTHER -> Throw(h, "TypeError: " \o op \o " is not a function")

(***************************************************************************)
(* The call site of the Liskov example.                                    *)
(***************************************************************************)
\* A call site that branches on the variant and knows the first three only.
processCustomerPayment_branching(h, paymentMethod, amount) ==
  IF h[paymentMethod].cls \in {"CreditCardPayment", "PayPalPayment",
                               "BankTransferPayment"}
  THEN Invoke(h, paymentMethod, "processPayment", amount)
  ELSE Throw(h, "Payment method not supported")

\* A call site edited when the new variant was added: once CryptoPayment is
\* declared it announces the payment before dispatching.
processCustomerPayment_edited(h, paymentMethod, amount) ==
  LET r == Invoke(h, paymentMethod, "processPayment", amount) IN
  IF "CryptoPayment" \in classes
  THEN [r EXCEPT !.out = <<"Processing payment...">> \o r.out]
  ELSE r

processCustomerPayment(h, paymentMethod, amount) ==
  Invoke(h, paymentMethod, "processPayment", amount)

(***************************************************************************)
(* The programs, the classes each declares before its example usage, and   *)
(* the class each declares later ("adding a new ... does not require       *)
(* modifying existing code").  The commented-out Discount of the           *)
(* open/closed file is a program of its own: it shares its name with the   *)
(* abstract Discount that replaces it.                                     *)
(***************************************************************************)
Programs == {"SRP", "OCPbefore", "OCP", "LSP", "ISP", "DIP"}

BaseClasses(p) ==
  CASE p = "SRP" -> {"User", "Logger"}
    [] p = "OCPbefore" -> {"Discount"}
    [] p = "OCP" -> {"RegularCustomer", "SilverCustomer", "GoldCustomer"}
    [] p = "LSP" -> {"CreditCardPayment", "PayPalPayment", "BankTransferPayment"}
    [] p = "ISP" -> {"BasicPrinter", "BasicPrinterISP", "AdvancedPrinter"}
    [] p = "DIP" -> {"MySqlDatabase", "MongoDbDatabase", "HighLevelModule",
                     "MySqlDatabaseDIP", "MongoDbDatabaseDIP", "HighLevelModuleDIP"}

LaterClasses(p) ==
  CASE p = "OCP" -> {"PremiumCustomer"}
    [] p = "LSP" -> {"CryptoPayment"}
    [] p = "ISP" -> {"Photocopier"}
    [] OTHER -> {}

(***************************************************************************)
(* The contracts (interfaces and abstract classes), the operations each    *)
(* declares, and the contracts each class implements or extends.           *)
(***************************************************************************)
ContractOps(c) ==
  CASE c = "Payment" -> {"processPayment"}
    [] c = "Discount" -> {"calculateDiscount"}
    [] c = "Printer" -> {"print", "scan", "fax"}
    [] c = "Printable" -> {"print"}
    [] c = "Scannable" -> {"scan"}
    [] c = "Faxable" -> {"fax"}
    [] c = "Photocopyable" -> {"photocopy"}
    [] c = "IDatabase" -> {"save"}

Contracts(cls) ==
  CASE cls \in {"CreditCardPayment", "PayPalPayment", "BankTransferPayment",
                "CryptoPayment"} -> {"Payment"}
    [] cls \in {"RegularCustomer", "SilverCustomer", "GoldCustomer",
                "PremiumCustomer"} -> {"Discount"}
    [] cls = "BasicPrinter" -> {"Printer"}
    [] cls = "BasicPrinterISP" -> {"Printable"}
    [] cls = "AdvancedPrinter" -> {"Printable", "Scannable", "Faxable"}
    [] cls = "Photocopier" -> {"Printable", "Photocopyable"}
    [] cls \in {"MySqlDatabaseDIP", "MongoDbDatabaseDIP"} -> {"IDatabase"}
    [] OTHER -> {}

\* The public methods a class declares of its own, outside any contract.
OwnOps(cls) ==
  CASE cls = "User" -> {"getUser", "save"}
    [] cls = "Logger" -> {"log"}
    [] cls = "Discount" -> {"calculateDiscount"}
    [] cls \in {"MySqlDatabase", "MongoDbDatabase"} -> {"save"}
    [] cls = "HighLevelModule" -> {"saveToMySQL", "saveToMongoDB"}
    [] cls = "HighLevelModuleDIP" -> {"saveData"}
    [] OTHER -> {}

\* What the type checker lets a caller invoke on an object of class cls.
Methods(cls) == OwnOps(cls) \cup UNION {ContractOps(c) : c \in Contracts(cls)}

\* The argument values a caller passes to an operation.
ArgsOf(op) ==
  CASE op = "processPayment" -> {Num(a) : a \in Amounts}
    [] op \in {"save", "saveToMySQL", "saveToMongoDB", "saveData"} ->
         {Str(d) : d \in DataStrings}
    [] op = "log" -> {Str(d) : d \in DataStrings}
    [] OTHER -> {Undefined}

\* User.save() and Database.save(data) share a name.
CallArgs(cls, op) == IF cls = "User" THEN {Undefined} ELSE ArgsOf(op)

(***************************************************************************)
(* Constructors: new cls(args) allocates the object and sets its fields.   *)
(***************************************************************************)
Object(cls, fields) == [cls |-> cls, fields |-> fields]

HighLevelModule_constructor(h, args) ==
  LET this == Len(h) + 1 IN
  h \o << Object("HighLevelModule",
                 [mysqlDatabase |-> Ref(this + 1), mongoDatabase |-> Ref(this + 2)]),
          Object("MySqlDatabase", <<>>),
          Object("MongoDbDatabase", <<>>) >>

New(h, cls, args) ==
  CASE cls = "User" ->
         Append(h, Object(cls, [name |-> args[1], email |-> args[2],
                                password |-> args[3]]))
    [] cls \in {"RegularCustomer", "SilverCustomer", "GoldCustomer",
                "PremiumCustomer"} ->
         Append(h, Object(cls, [amount |-> args[1]]))
    [] cls = "Discount" ->
         Append(h, Object(cls, [customerType |-> args[1], amount |-> args[2]]))
    [] cls = "HighLevelModule" -> HighLevelModule_constructor(h, args)
    [] cls = "HighLevelModuleDIP" ->
         Append(h, Object(cls, [database |-> Ref(args[1])]))
    [] OTHER -> Append(h, Object(cls, <<>>))

\* The arguments a caller may pass to new cls(...), given the heap.
CtorArgs(h, cls) ==
  CASE cls = "User" -> UserNames \X UserEmails \X Passwords
    [] cls \in {"RegularCustomer", "SilverCustomer", "GoldCustomer",
                "PremiumCustomer"} -> {<<a>> : a \in Amounts}
    [] cls = "Discount" -> CustomerTypes \X Amounts
    [] cls = "HighLevelModuleDIP" ->
         {<<d>> : d \in {o \in 1..Len(h) : "IDatabase" \in Contracts(h[o].cls)}}
    [] OTHER -> {<<>>}

(***************************************************************************)
(* The state after the program's class declarations.                       *)
(***************************************************************************)
NoEnv == [x \in {} |-> 0]

Init ==
  /\ program \in Programs
  /\ classes = BaseClasses(program)
  /\ heap = <<>>
  /\ clock = 0
  /\ calls = <<>>
  /\ env = NoEnv
  /\ pc \in {0, 1}

(***************************************************************************)
(* What the history keeps of a call, and the history after one more call.  *)
(***************************************************************************)
CallRecord(h, o, op, site, arg, r) ==
  [obj |-> o, op |-> op, site |-> site, arg |-> arg,
   out |-> r.out, ret |-> r.ret, err |-> r.err, classes |-> classes,
   changed |-> {x \in 1..Len(h) : r.heap[x] # h[x]}]

Remember(history, rec) ==
  IF history = <<>> THEN <<rec>> ELSE <<history[Len(history)], rec>>

ObjLimit == IF program = "DIP" THEN MaxObjsDIP ELSE MaxObjs

(***************************************************************************)
(* A caller's steps: any construction and any call the types allow, in any *)
(* order.  An Error thrown by a call reaches the caller, which records it. *)
(***************************************************************************)
NewObject ==
  \E cls \in classes :
    \E args \in CtorArgs(heap, cls) :
      /\ pc = 0
      /\ Len(New(heap, cls, args)) <= ObjLimit
      /\ heap' = New(heap, cls, args)
      /\ UNCHANGED <<program, classes, clock, calls, env, pc>>

DeclareClass ==
  \E cls \in LaterClasses(program) \ classes :
    /\ pc = 0
    /\ classes' = classes \cup {cls}
    /\ UNCHANGED <<program, heap, clock, calls, env, pc>>

CallMethod ==
  \E o \in 1..Len(heap) :
    \E op \in Methods(heap[o].cls) :
      \E arg \in CallArgs(heap[o].cls, op) :
        LET r == Invoke(heap, o, op, arg) IN
        /\ pc = 0
        /\ heap' = r.heap
        /\ calls' = Remember(calls, CallRecord(heap, o, op, "direct", arg, r))
        /\ UNCHANGED <<program, classes, clock, env, pc>>

CallProcessCustomerPayment ==
  \E o \in 1..Len(heap) :
    \E amount \in Amounts :
      LET r == processCustomerPayment(heap, o, Num(amount)) IN
      /\ pc = 0
      /\ "Payment" \in Contracts(heap[o].cls)
      /\ heap' = r.heap
      /\ calls' = Remember(calls, CallRecord(heap, o, "processPayment",
                                           "processCustomerPayment", Num(amount), r))
      /\ UNCHANGED <<program, classes, clock, env, pc>>

\* Time passes; only the program that reads the clock keeps it.
Tick ==
  /\ "Logger" \in classes
  /\ clock < MaxClock
  /\ clock' = clock + 1
  /\ UNCHANGED <<program, classes, heap, calls, env, pc>>

(***************************************************************************)
(* The example usage of each program, statement by statement.              *)
(***************************************************************************)
StNew(var, cls, args) == [k |-> "new", var |-> var, cls |-> cls, args |-> args]
StInject(var, cls, dep) == [k |-> "inject", var |-> var, cls |-> cls, dep |-> dep]
StCall(var, op, arg) == [k |-> "call", var |-> var, op |-> op, arg |-> arg]
StPay(var, amount) == [k |-> "pay", var |-> var, amount |-> amount]
StClass(cls) == [k |-> "class", cls |-> cls]
\* logger.log(`User ${JSON.stringify(<the value getUser just returned>)} saved`)
StLogUser(var) == [k |-> "logUser", var |-> var]

ScriptSRP ==
  << StNew("user", "User", <<"Alice", "alice@example.com", "AlicePassword">>),
     StCall("user", "save", Undefined),
     StNew("logger", "Logger", <<>>),
     StCall("user", "getUser", Undefined),
     StLogUser("logger") >>

ScriptOCPbefore ==
  << StNew("regularCustomer", "Discount", <<"regular", 1000>>),
     StCall("regularCustomer", "calculateDiscount", Undefined),
     StNew("goldCustomer", "Discount", <<"gold", 2000>>),
     StCall("goldCustomer", "calculateDiscount", Undefined) >>

ScriptOCP ==
  << StNew("regularCustomer", "RegularCustomer", <<1000>>),
     StCall("regularCustomer", "calculateDiscount", Undefined),
     StNew("silverCustomer", "SilverCustomer", <<1000>>),
     StCall("silverCustomer", "calculateDiscount", Undefined),
     StNew("goldCustomer", "GoldCustomer", <<1000>>),
     StCall("goldCustomer", "calculateDiscount", Undefined),
     StClass("PremiumCustomer"),
     StNew("premiumCustomer", "PremiumCustomer", <<1000>>),
     StCall("premiumCustomer", "calculateDiscount", Undefined) >>

\* The example paying twice with creditCardPayment, payPalPayment unused.
ScriptLSP_shared ==
  << StNew("creditCardPayment", "CreditCardPayment", <<>>),
     StPay("creditCardPayment", 100),
     StNew("payPalPayment", "PayPalPayment", <<>>),
     StPay("creditCardPayment", 200),
     StNew("bankTransferPayment", "BankTransferPayment", <<>>),
     StPay("bankTransferPayment", 300),
     StClass("CryptoPayment"),
     StNew("cryptoPayment", "CryptoPayment", <<>>),
     StPay("cryptoPayment", 400) >>

ScriptLSP ==
  << StNew("creditCardPayment", "CreditCardPayment", <<>>),
     StPay("creditCardPayment", 100),
     StNew("payPalPayment", "PayPalPayment", <<>>),
     StPay("payPalPayment", 200),
     StNew("bankTransferPayment", "BankTransferPayment", <<>>),
     StPay("bankTransferPayment", 300),
     StClass("CryptoPayment"),
     StNew("cryptoPayment", "CryptoPayment", <<>>),
     StPay("cryptoPayment", 400) >>

ScriptISP ==
  << StNew("basicPrinter", "BasicPrinterISP", <<>>),
     StCall("basicPrinter", "print", Undefined),
     StNew("advancedPrinter", "AdvancedPrinter", <<>>),
     StCall("advancedPrinter", "print", Undefined),
     StCall("advancedPrinter", "scan", Undefined),
     StCall("advancedPrinter", "fax", Undefined),
     StClass("Photocopier"),
     StNew("photocopier", "Photocopier", <<>>),
     StCall("photocopier", "print", Undefined),
     StCall("photocopier", "photocopy", Undefined) >>

ScriptDIP ==
  << StNew("highLevelModule", "HighLevelModule", <<>>),
     StCall("highLevelModule", "saveToMySQL", Str("User data")),
     StCall("highLevelModule", "saveToMongoDB", Str("Post data")),
     StNew("mysqlDIP", "MySqlDatabaseDIP", <<>>),
     StNew("mongoDIP", "MongoDbDatabaseDIP", <<>>),
     StInject("userModule", "HighLevelModuleDIP", "mysqlDIP"),
     StCall("userModule", "saveData", Str("User data")),
     StInject("postModule", "HighLevelModuleDIP", "mongoDIP"),
     StCall("postModule", "saveData", Str("Post data")) >>

Script(p) ==
  CASE p = "SRP" -> ScriptSRP
    [] p = "OCPbefore" -> ScriptOCPbefore
    [] p = "OCP" -> ScriptOCP
    [] p = "LSP" -> ScriptLSP
    [] p = "ISP" -> ScriptISP
    [] p = "DIP" -> ScriptDIP

Bind(e, var, o) == [x \in DOMAIN e \cup {var} |-> IF x = var THEN o ELSE e[x]]

\* The script runs its next statement; after the last one it has ended.
ScriptStep ==
  /\ pc >= 1
  /\ pc <= Len(Script(program))
  /\ pc' = pc + 1
  /\ LET st == Script(program)[pc] IN
     CASE st.k = "new" ->
            /\ heap' = New(heap, st.cls, st.args)
            /\ env' = Bind(env, st.var, Len(heap) + 1)
            /\ UNCHANGED <<program, classes, clock, calls>>
       [] st.k = "inject" ->
            /\ heap' = New(heap, st.cls, <<env[st.dep]>>)
            /\ env' = Bind(env, st.var, Len(heap) + 1)
            /\ UNCHANGED <<program, classes, clock, calls>>
       [] st.k = "class" ->
            /\ classes' = classes \cup {st.cls}
            /\ UNCHANGED <<program, heap, clock, calls, env>>
       [] st.k = "call" ->
            LET r == Invoke(heap, env[st.var], st.op, st.arg) IN
            /\ heap' = r.heap
            /\ calls' = Append(calls, CallRecord(heap, env[st.var], st.op, "direct",
                                                 st.arg, r))
            /\ UNCHANGED <<program, classes, clock, env>>
       [] st.k = "pay" ->
            LET r == processCustomerPayment(heap, env[st.var], Num(st.amount)) IN
            /\ heap' = r.heap
            /\ calls' = Append(calls, CallRecord(heap, env[st.var], "processPayment",
                                                 "processCustomerPayment",
                                                 Num(st.amount), r))
            /\ UNCHANGED <<program, classes, clock, env>>
       [] st.k = "logUser" ->
            LET message == Str("User " \o JSONStringify(calls[Len(calls)].ret)
                                 \o " saved")
                r == Invoke(heap, env[st.var], "log", message) IN
            /\ heap' = r.heap
            /\ calls' = Append(calls, CallRecord(heap, env[st.var], "log", "direct",
                                                 message, r))
            /\ UNCHANGED <<program, classes, clock, env>>

Next ==
  \/ NewObject
  \/ DeclareClass
  \/ CallMethod
  \/ CallProcessCustomerPayment
  \/ ScriptStep
  \/ Tick

Spec == Init /\ [][Next]_vars

(***************************************************************************)
(* Helpers of the properties.                                              *)
(***************************************************************************)
ClassOf(r) == heap[r.obj].cls
FieldsOf(r) == heap[r.obj].fields
Returned(r) == r.err = NoError

PaymentClasses ==
  {"CreditCardPayment", "PayPalPayment", "BankTransferPayment", "CryptoPayment"}
CustomerClasses ==
  {"RegularCustomer", "SilverCustomer", "GoldCustomer", "PremiumCustomer"}
NarrowPrinterClasses == {"BasicPrinterISP", "AdvancedPrinter", "Photocopier"}

PaymentLabel(cls) ==
  CASE cls = "CreditCardPayment" -> "credit card"
    [] cls = "PayPalPayment" -> "PayPal"
    [] cls = "BankTransferPayment" -> "bank transfer"
    [] cls = "CryptoPayment" -> "cryptocurrency"

RatePercent(cls) ==
  CASE cls = "RegularCustomer" -> 5
    [] cls = "SilverCustomer" -> 10
    [] cls = "GoldCustomer" -> 15
    [] cls = "PremiumCustomer" -> 20

TagPercent(tag) ==
  CASE tag = "regular" -> 5
    [] tag = "silver" -> 10
    [] tag = "gold" -> 15

PrinterMessage(op) ==
  CASE op = "print" -> "Printing document..."
    [] op = "scan" -> "Scanning document..."
    [] op = "fax" -> "Faxing document..."
    [] op = "photocopy" -> "Photocopying document..."

\* The class of the database a HighLevelModuleDIP was constructed with.
InjectedClass(r) == heap[FieldsOf(r).database.ref].cls

(***************************************************************************)
(* C1.  Whatever the payment variant and the amount, a call through        *)
(* processCustomerPayment has the outcome of the direct call               *)
(* V.processPayment(amount): the same single message, nothing thrown,      *)
(* nothing returned, no object changed; and where the history holds both   *)
(* a direct call and a call through the call site for the same object and  *)
(* amount, they emitted the same messages.                                 *)
(***************************************************************************)
C1_CallSiteIsDirectCall ==
  /\ \A i \in 1..Len(calls) :
       LET r == calls[i]
           d == Invoke(heap, r.obj, "processPayment", r.arg) IN
       r.site = "processCustomerPayment" =>
         /\ ClassOf(r) \in PaymentClasses
         /\ r.out = d.out
         /\ Len(r.out) = 1
         /\ r.err = d.err
         /\ r.ret = d.ret
         /\ r.changed = {}
  /\ \A i, j \in 1..Len(calls) :
       ( /\ calls[i].site = "processCustomerPayment"
         /\ calls[j].site = "direct"
         /\ calls[j].op = "processPayment"
         /\ calls[i].obj = calls[j].obj
         /\ calls[i].arg = calls[j].arg )
       => calls[i].out = calls[j].out

\* A direct call and a call through the call site on the same CryptoPayment.
C1_Witness ==
  /\ pc = 0
  /\ Len(calls) = 2
  /\ calls[1].site = "direct"
  /\ calls[2].site = "processCustomerPayment"
  /\ calls[1].obj = calls[2].obj
  /\ calls[1].arg = calls[2].arg
  /\ ClassOf(calls[2]) = "CryptoPayment"
  /\ Len(calls[2].out) = 1

(***************************************************************************)
(* C2.  calculateDiscount() of a customer class returns the amount given   *)
(* to the constructor times the class's own rate: 5% regular, 10% silver,  *)
(* 15% gold, 20% premium; for the amount 1000 that is 50, 100, 150, 200.   *)
(***************************************************************************)
C2_DiscountValues ==
  \A i \in 1..Len(calls) :
    LET r == calls[i] IN
    (ClassOf(r) \in CustomerClasses /\ r.op = "calculateDiscount") =>
      /\ Returned(r)
      /\ IsNum(r.ret)
      /\ r.ret.num * 100 = FieldsOf(r).amount * RatePercent(ClassOf(r))
      /\ FieldsOf(r).amount = 1000 =>
           r.ret.num = (CASE ClassOf(r) = "RegularCustomer" -> 50
                          [] ClassOf(r) = "SilverCustomer" -> 100
                          [] ClassOf(r) = "GoldCustomer" -> 150
                          [] ClassOf(r) = "PremiumCustomer" -> 200)

\* Gold and premium customers of amount 1000 have returned 150 and 200.
C2_Witness ==
  /\ Len(calls) = 2
  /\ ClassOf(calls[1]) = "GoldCustomer"
  /\ ClassOf(calls[2]) = "PremiumCustomer"
  /\ FieldsOf(calls[1]).amount = 1000
  /\ FieldsOf(calls[2]).amount = 1000
  /\ calls[1].ret = Num(150)
  /\ calls[2].ret = Num(200)

(***************************************************************************)
(* C3.  Through processCustomerPayment every payment variant emits one     *)
(* message that contains the variant's own label and the amount in         *)
(* decimal (100 for the amount 100), and two calls on different variants   *)
(* with the same amount emit different messages.                           *)
(***************************************************************************)
C3_VariantMessages ==
  /\ \A i \in 1..Len(calls) :
       LET r == calls[i] IN
       r.site = "processCustomerPayment" =>
         /\ Len(r.out) = 1
         /\ Contains(r.out[1], PaymentLabel(ClassOf(r)))
         /\ Contains(r.out[1], "$" \o NumberToString(r.arg.num))
         /\ r.arg = Num(100) => Contains(r.out[1], "100")
  /\ \A i, j \in 1..Len(calls) :
       ( /\ calls[i].site = "processCustomerPayment"
         /\ calls[j].site = "processCustomerPayment"
         /\ ClassOf(calls[i]) # ClassOf(calls[j])
         /\ calls[i].arg = calls[j].arg )
       => calls[i].out # calls[j].out

\* PayPal and cryptocurrency payments of 100 through the call site.
C3_Witness ==
  /\ pc = 0
  /\ Len(calls) = 2
  /\ calls[1].site = "processCustomerPayment"
  /\ calls[2].site = "processCustomerPayment"
  /\ ClassOf(calls[1]) = "PayPalPayment"
  /\ ClassOf(calls[2]) = "CryptoPayment"
  /\ calls[1].arg = Num(100)
  /\ calls[2].arg = Num(100)

(***************************************************************************)
(* C4.  saveData(data) of a HighLevelModuleDIP emits one message, which    *)
(* contains the data and names the store of the injected database: MySQL   *)
(* and not MongoDB for MySqlDatabaseDIP, MongoDB and not MySQL for         *)
(* MongoDbDatabaseDIP.  Two modules with different databases emit          *)
(* different messages for the same data, two with the same kind of         *)
(* database the same message.                                              *)
(***************************************************************************)
C4_InjectedStoreNamed ==
  /\ \A i \in 1..Len(calls) :
       LET r == calls[i] IN
       (ClassOf(r) = "HighLevelModuleDIP" /\ r.op = "saveData") =>
         /\ Returned(r)
         /\ Len(r.out) = 1
         /\ Contains(r.out[1], r.arg.str)
         /\ Contains(r.out[1], "MySQL") <=> InjectedClass(r) = "MySqlDatabaseDIP"
         /\ Contains(r.out[1], "MongoDB") <=> InjectedClass(r) = "MongoDbDatabaseDIP"
  /\ \A i, j \in 1..Len(calls) :
       ( /\ ClassOf(calls[i]) = "HighLevelModuleDIP"
         /\ ClassOf(calls[j]) = "HighLevelModuleDIP"
         /\ calls[i].arg = calls[j].arg )
       => ( calls[i].out = calls[j].out
              <=> InjectedClass(calls[i]) = InjectedClass(calls[j]) )

\* "User data" saved through a MySQL module, then through a MongoDB module.
C4_Witness ==
  /\ pc = 0
  /\ Len(calls) = 2
  /\ ClassOf(calls[1]) = "HighLevelModuleDIP"
  /\ ClassOf(calls[2]) = "HighLevelModuleDIP"
  /\ InjectedClass(calls[1]) = "MySqlDatabaseDIP"
  /\ InjectedClass(calls[2]) = "MongoDbDatabaseDIP"
  /\ calls[1].arg = Str("User data")
  /\ calls[2].arg = Str("User data")
  /\ calls[1].out = <<"User data is being saved to MySQL">>
  /\ calls[2].out = <<"User data is being saved to MongoDB">>

(***************************************************************************)
(* C5.  Every call on a BasicPrinterISP, AdvancedPrinter or Photocopier is *)
(* for an operation of a narrow contract the class implements, throws      *)
(* nothing and emits that operation's message.                             *)
(***************************************************************************)
C5_NarrowContractsNeverThrow ==
  \A i \in 1..Len(calls) :
    LET r == calls[i] IN
    ClassOf(r) \in NarrowPrinterClasses =>
      /\ \E c \in Contracts(ClassOf(r)) :
           c \in {"Printable", "Scannable", "Faxable", "Photocopyable"}
             /\ r.op \in ContractOps(c)
      /\ Returned(r)
      /\ r.out = <<PrinterMessage(r.op)>>

\* An AdvancedPrinter has scanned and faxed.
C5_Witness ==
  /\ pc = 0
  /\ Len(calls) = 2
  /\ ClassOf(calls[1]) = "AdvancedPrinter"
  /\ calls[1].obj = calls[2].obj
  /\ calls[1].op = "scan"
  /\ calls[2].op = "fax"
  /\ calls[1].out = <<"Scanning document...">>

(***************************************************************************)
(* C6.  Declaring the new variant changes no outcome of the existing ones: *)
(* two calls of the same operation with the same argument on objects of    *)
(* the same class and fields, one made before CryptoPayment (or            *)
(* PremiumCustomer) was declared and one after, have the same outcome;     *)
(* and the new variants give their own results through the unchanged call  *)
(* site and contract.                                                      *)
(***************************************************************************)
C6_ExtensionChangesNothing ==
  /\ \A i, j \in 1..Len(calls) :
       ( /\ program \in {"LSP", "OCP"}
         /\ heap[calls[i].obj] = heap[calls[j].obj]
         /\ calls[i].op = calls[j].op
         /\ calls[i].site = calls[j].site
         /\ calls[i].arg = calls[j].arg )
       => /\ calls[i].out = calls[j].out
          /\ calls[i].ret = calls[j].ret
          /\ calls[i].err = calls[j].err
  /\ \A i \in 1..Len(calls) :
       LET r == calls[i] IN
       /\ (ClassOf(r) = "CryptoPayment" /\ r.site = "processCustomerPayment") =>
            r.out = <<"Processed cryptocurrency payment of $"
                        \o NumberToString(r.arg.num)>>
       /\ ClassOf(r) = "PremiumCustomer" =>
            r.ret = Num((FieldsOf(r).amount * 20) \div 100)

\* The same credit card payment through the call site before and after
\* CryptoPayment was declared.
C6_Witness ==
  /\ pc = 0
  /\ Len(calls) = 2
  /\ calls[1].site = "processCustomerPayment"
  /\ calls[2].site = "processCustomerPayment"
  /\ ClassOf(calls[1]) = "CreditCardPayment"
  /\ calls[1].obj = calls[2].obj
  /\ calls[1].arg = calls[2].arg
  /\ "CryptoPayment" \notin calls[1].classes
  /\ "CryptoPayment" \in calls[2].classes

(***************************************************************************)
(* C7.  On the fat-interface BasicPrinter, scan() and fax() always throw   *)
(* their "not supported by BasicPrinter" Error to the caller and emit      *)
(* nothing, print() emits "Printing document..." and returns; a print()    *)
(* after a failed scan() or fax() on the same printer succeeds.            *)
(***************************************************************************)
C7_FatInterfaceThrows ==
  /\ \A i \in 1..Len(calls) :
       LET r == calls[i] IN
       ClassOf(r) = "BasicPrinter" =>
         /\ r.op = "scan" =>
              r.err = "Scan not supported by BasicPrinter." /\ r.out = <<>>
         /\ r.op = "fax" =>
              r.err = "Fax not supported by BasicPrinter." /\ r.out = <<>>
         /\ r.op = "print" =>
              Returned(r) /\ r.out = <<"Printing document...">>
         /\ r.changed = {}
  /\ \A i, j \in 1..Len(calls) :
       ( /\ i < j
         /\ ClassOf(calls[i]) = "BasicPrinter"
         /\ calls[i].obj = calls[j].obj
         /\ ~Returned(calls[i])
         /\ calls[j].op = "print" )
       => Returned(calls[j]) /\ calls[j].out = <<"Printing document...">>

\* A BasicPrinter failed to scan and then printed.
C7_Witness ==
  /\ pc = 0
  /\ Len(calls) = 2
  /\ ClassOf(calls[1]) = "BasicPrinter"
  /\ calls[1].obj = calls[2].obj
  /\ calls[1].op = "scan"
  /\ ~Returned(calls[1])
  /\ calls[2].op = "print"
  /\ Returned(calls[2])

(***************************************************************************)
(* C8.  The tag-branching Discount throws "Customer type not supported"    *)
(* exactly when its customerType is none of regular, silver, gold, and     *)
(* otherwise returns the amount times 5%, 10%, 15%; the polymorphic        *)
(* customer classes never throw.                                           *)
(***************************************************************************)
C8_UnrecognizedCase ==
  \A i \in 1..Len(calls) :
    LET r == calls[i] IN
    /\ (ClassOf(r) = "Discount" /\ r.op = "calculateDiscount") =>
         IF FieldsOf(r).customerType \in {"regular", "silver", "gold"}
         THEN /\ Returned(r)
              /\ r.ret.num * 100 = FieldsOf(r).amount * TagPercent(FieldsOf(r).customerType)
         ELSE r.err = "Customer type not supported"
    /\ ClassOf(r) \in CustomerClasses => Returned(r)

\* A Discount tagged premium has thrown, one tagged gold has returned.
C8_Witness ==
  /\ Len(calls) = 2
  /\ ClassOf(calls[1]) = "Discount"
  /\ FieldsOf(calls[1]).customerType = "premium"
  /\ calls[1].err = "Customer type not supported"
  /\ ClassOf(calls[2]) = "Discount"
  /\ FieldsOf(calls[2]).customerType = "gold"
  /\ Returned(calls[2])

(***************************************************************************)
(* Every object is still exactly what its constructor made of the          *)
(* arguments it was given: new cls(args) on the heap as it was then.       *)
(***************************************************************************)
ScriptCtorArgs(cls) ==
  {Script(program)[k].args :
     k \in {n \in 1..Len(Script(program)) :
              Script(program)[n].k = "new" /\ Script(program)[n].cls = cls}}

FieldsFromConstructor ==
  \A o \in 1..Len(heap) :
    \E owner \in 1..o :
      LET before == SubSeq(heap, 1, owner - 1)
          cls == heap[owner].cls IN
      \E args \in CtorArgs(before, cls) \cup ScriptCtorArgs(cls) :
        /\ Len(New(before, cls, args)) >= o
        /\ heap[o] = New(before, cls, args)[o]

NoCallChangedAnObject == \A i \in 1..Len(calls) : calls[i].changed = {}

SameCall(r1, r2) ==
  /\ r1.obj = r2.obj
  /\ r1.op = r2.op
  /\ r1.site = r2.site
  /\ r1.arg = r2.arg

SameOutcome(r1, r2) == r1.out = r2.out /\ r1.ret = r2.ret /\ r1.err = r2.err

(***************************************************************************)
(* C9 as stated.  No call changes a field of any object, every object      *)
(* holds what its constructor was given, and a repeated call (same         *)
(* object, operation and argument) has the same outcome each time.         *)
(***************************************************************************)
C9_Original ==
  /\ NoCallChangedAnObject
  /\ FieldsFromConstructor
  /\ \A i, j \in 1..Len(calls) :
       SameCall(calls[i], calls[j]) => SameOutcome(calls[i], calls[j])

(***************************************************************************)
(* C9, amended.  No call changes a field of any object, every object       *)
(* holds what its constructor was given, and a repeated call has the same  *)
(* outcome each time, except Logger.log: its message is "LOG: <message>    *)
(* at <the time of the call>", the same up to the time.                    *)
(***************************************************************************)
C9_StatelessExceptClock ==
  /\ NoCallChangedAnObject
  /\ FieldsFromConstructor
  /\ \A i, j \in 1..Len(calls) :
       (SameCall(calls[i], calls[j]) /\ calls[i].op # "log")
         => SameOutcome(calls[i], calls[j])
  /\ \A i \in 1..Len(calls) :
       calls[i].op = "log" =>
         /\ Returned(calls[i])
         /\ calls[i].ret = Undefined
         /\ \E t \in 0..clock :
              calls[i].out = <<"LOG: " \o calls[i].arg.str \o " at " \o toISOString(t)>>

\* A RegularCustomer has calculated its discount twice, and got the same.
C9_Witness ==
  /\ pc = 0
  /\ Len(calls) = 2
  /\ SameCall(calls[1], calls[2])
  /\ ClassOf(calls[1]) = "RegularCustomer"
  /\ calls[1].ret = Num(50)
  /\ calls[2].ret = Num(50)

(***************************************************************************)
(* The example scripts.                                                    *)
(***************************************************************************)
ScriptRuns == pc # 0
ScriptEnded == pc > Len(Script(program))
ScriptObjects == {env[x] : x \in DOMAIN env}
NumCalls(o) == Cardinality({i \in 1..Len(calls) : calls[i].obj = o})

\* The classes whose example instance receives more than one call.
ReusedClasses == {"User", "HighLevelModule", "AdvancedPrinter", "Photocopier"}

StartsWith(s, prefix) ==
  Len(s) >= Len(prefix) /\ SubSeq(s, 1, Len(prefix)) = prefix

IsSave(r) == ClassOf(r) = "User" /\ r.op = "save"
IsLog(r) == ClassOf(r) = "Logger" /\ r.op = "log"

C11_SaveDoesNotLog ==
  /\ \A i \in 1..Len(calls) :
       LET r == calls[i] IN
       /\ IsSave(r) =>
            /\ Returned(r)
            /\ r.out = <<"User {\"name\":" \o JSONQuote(FieldsOf(r).name)
                           \o ",\"email\":" \o JSONQuote(FieldsOf(r).email)
                           \o "} saved to database">>
       /\ \A k \in 1..Len(r.out) : StartsWith(r.out[k], "LOG:") => IsLog(r)
       /\ IsLog(r) =>
            /\ Len(r.out) = 1
            /\ StartsWith(r.out[1], "LOG: " \o r.arg.str \o " at ")
  /\ (ScriptRuns /\ program = "SRP") =>
       \A j \in 1..Len(calls) :
         IsLog(calls[j]) => \E i \in 1..(j - 1) : IsSave(calls[i])

\* The single-responsibility script has ended: Alice was saved, then logged.
C11_Witness ==
  /\ ScriptRuns
  /\ ScriptEnded
  /\ program = "SRP"
  /\ Len(calls) = 3
  /\ IsSave(calls[1])
  /\ calls[1].out =
       <<"User {\"name\":\"Alice\",\"email\":\"alice@example.com\"} saved to database">>
  /\ IsLog(calls[3])
  /\ StartsWith(calls[3].out[1],
                "LOG: User {\"name\":\"Alice\",\"email\":\"alice@example.com\"} saved at 1970-01-01T00:00:00.00")

(***************************************************************************)
(* C12.  The password never shows.  For two users with the same name and   *)
(* email, whatever their passwords, getUser() returns the same value,      *)
(* which holds the name and the email only, save() emits the same message, *)
(* and Logger.log of the script's message built from getUser() is the same *)
(* at the same time; and calls already made on two such users with the     *)
(* same operation had the same outcome.                                    *)
(***************************************************************************)
Users == {o \in 1..Len(heap) : heap[o].cls = "User"}

SamePublicFields(u1, u2) ==
  /\ heap[u1].fields.name = heap[u2].fields.name
  /\ heap[u1].fields.email = heap[u2].fields.email

\* The message the example script hands to logger.log for a user.
SavedMessage(u) ==
  Str("User " \o JSONStringify(Invoke(heap, u, "getUser", Undefined).ret) \o " saved")

C12_PasswordIgnored ==
  /\ \A u1, u2 \in Users :
       SamePublicFields(u1, u2) =>
         /\ SameOutcome(Invoke(heap, u1, "getUser", Undefined),
                        Invoke(heap, u2, "getUser", Undefined))
         /\ DOMAIN Invoke(heap, u1, "getUser", Undefined).ret.object = {"name", "email"}
         /\ SameOutcome(Invoke(heap, u1, "save", Undefined),
                        Invoke(heap, u2, "save", Undefined))
         \* log does not read its receiver: any object stands for the logger
         /\ SameOutcome(Logger_log(heap, u1, SavedMessage(u1)),
                        Logger_log(heap, u1, SavedMessage(u2)))
  /\ \A i, j \in 1..Len(calls) :
       ( /\ calls[i].obj \in Users
         /\ calls[j].obj \in Users
         /\ SamePublicFields(calls[i].obj, calls[j].obj)
         /\ calls[i].op = calls[j].op )
       => SameOutcome(calls[i], calls[j])

\* Two Alices with different passwords have both been saved.
C12_Witness ==
  /\ pc = 0
  /\ Len(calls) = 2
  /\ calls[1].obj \in Users
  /\ calls[2].obj \in Users
  /\ SamePublicFields(calls[1].obj, calls[2].obj)
  /\ FieldsOf(calls[1]).password # FieldsOf(calls[2]).password
  /\ calls[1].op = "save"
  /\ calls[2].op = "save"
  /\ calls[1].out = calls[2].out
  /\ Len(calls[1].out) = 1

(***************************************************************************)
(* C13.  The coupled and the injected designs emit the same.  For every    *)
(* data string, saveToMySQL of a HighLevelModule emits what saveData of a  *)
(* HighLevelModuleDIP built with a MySqlDatabaseDIP emits, and             *)
(* saveToMongoDB what one built with a MongoDbDatabaseDIP emits; and       *)
(* saveData saves to the database the module was constructed with: its     *)
(* outcome is that database's save, and differs from the save of a         *)
(* database of the other class.                                            *)
(***************************************************************************)
CoupledHeap == New(<<>>, "HighLevelModule", <<>>)
InjectedHeap(dbClass) == New(New(<<>>, dbClass, <<>>), "HighLevelModuleDIP", <<1>>)

Coupled(op, data) == Invoke(CoupledHeap, 1, op, data)
Injected(dbClass, data) == Invoke(InjectedHeap(dbClass), 2, "saveData", data)

Databases == {o \in 1..Len(heap) : "IDatabase" \in Contracts(heap[o].cls)}

C13_DesignsEquivalent ==
  /\ \A d \in DataStrings :
       /\ SameOutcome(Coupled("saveToMySQL", Str(d)), Injected("MySqlDatabaseDIP", Str(d)))
       /\ SameOutcome(Coupled("saveToMongoDB", Str(d)), Injected("MongoDbDatabaseDIP", Str(d)))
       /\ Len(Coupled("saveToMySQL", Str(d)).out) = 1
       /\ Len(Coupled("saveToMongoDB", Str(d)).out) = 1
  /\ \A i \in 1..Len(calls) :
       LET r == calls[i] IN
       /\ (ClassOf(r) = "HighLevelModule" /\ r.op = "saveToMySQL") =>
            SameOutcome(r, Injected("MySqlDatabaseDIP", r.arg))
       /\ (ClassOf(r) = "HighLevelModule" /\ r.op = "saveToMongoDB") =>
            SameOutcome(r, Injected("MongoDbDatabaseDIP", r.arg))
       /\ (ClassOf(r) = "HighLevelModuleDIP" /\ r.op = "saveData") =>
            /\ FieldsOf(r).database.ref \in Databases
            /\ SameOutcome(r, Invoke(heap, FieldsOf(r).database.ref, "save", r.arg))
            /\ SameOutcome(r, Coupled(IF InjectedClass(r) = "MySqlDatabaseDIP"
                                      THEN "saveToMySQL" ELSE "saveToMongoDB", r.arg))
            /\ \A o \in Databases :
                 heap[o].cls # InjectedClass(r) =>
                   r.out # Invoke(heap, o, "save", r.arg).out

\* A HighLevelModule saved "User data" to MySQL and "Post data" to MongoDB.
C13_Witness ==
  /\ pc = 0
  /\ Len(calls) = 2
  /\ ClassOf(calls[1]) = "HighLevelModule"
  /\ calls[1].op = "saveToMySQL"
  /\ calls[1].arg = Str("User data")
  /\ calls[1].out = Injected("MySqlDatabaseDIP", Str("User data")).out
  /\ calls[1].out = <<"User data is being saved to MySQL">>
  /\ calls[2].obj = calls[1].obj
  /\ calls[2].op = "saveToMongoDB"
  /\ calls[2].out = <<"Post data is being saved to MongoDB">>

=============================================================================
